---- MODULE Spec2Model ----
(***************************************************************************)
(* Model of requestAnimationThread (src/src/index.ts): a handler throttled  *)
(* to a target FPS on top of requestAnimationFrame, with the idle-callback  *)
(* bookkeeping, the requestInterval fallback timer, the throttle / pause /  *)
(* resume / restore / accelerate interface and the completion Promise.      *)
(*                                                                         *)
(* Time is counted in whole milliseconds.  The host is modelled by: the     *)
(* frame clock (rafQ: callbacks registered for the next frame, running:     *)
(* the callbacks of the frame being delivered, in registration order), the  *)
(* idle-callback queue (idleQ), the fallback timer (interval) and the       *)
(* Promise (settled).  A Promise reaction runs as a microtask, i.e. right   *)
(* after the callback that settled the Promise returns and before any       *)
(* other callback: it is part of the step that calls stop.                  *)
(*                                                                         *)
(* Not modelled (written by the loop, read by nothing that is modelled):    *)
(* frame, end, timeline, currentFrame, maxFps / useFPS.                     *)
(***************************************************************************)
EXTENDS Integers, Sequences, FiniteSets, TLC

\* ---------------------------------------------------------------- bounds
\* Rates the run is started with or throttled to.  They divide 1000, so that
\* every interval 1000 / rate is a whole number of milliseconds.
Rates == {2, 4}
\* Finite limits (tocks) a run is started with, a negative one among them: the
\* limit is taken as it is.  A run may also have no limit, which is also what
\* a limit that is no number (isNaN) or a number argument of 0 leaves.
Limits == {-1, 1}
\* Speeds handed to accelerate().
Speeds == {0, 1, 2}
\* Distances between two frames of the frame clock, in ms.
FrameSteps == {300}
\* How long after the frame's timestamp the loop reads performance.now().
NowLag == 50
\* performance.now() when requestAnimationThread is called.
StartTime == 100
\* No frame is delivered after this time.
MaxTime == 1900
\* Calls of the thread interface (throttle, pause, ...) in one run.
MaxCalls == 1

\* Runs with more calls of the thread interface: the calls in one run, the
\* speeds handed to accelerate() and the time of the last frame.
MoreCalls == 2
MoreSpeeds == {1}
LongTime == 2200
\* The limit (tocks) of the strict runs that are long enough for a rate
\* change well before their end.
StrictLimit == 2

\* The values handed to the rate converter on its own: the numbers n / d with
\* |n| up to MaxRate and d in Denominators (whole rates and halves, zero and
\* negative ones among them), null, undefined, NaN and a non-numeric string.
MaxRate == 30
\* requestInterval on its own: the finite limits it is called with (it is
\* also called without one), and how often the handler of an interval
\* without limit is invoked at most.
MaxIntervalLimit == 4
MaxIntervalCalls == 5
Denominators == {1, 2}

\* ------------------------------------------------------------- arithmetic
Abs(x) == IF x < 0 THEN -x ELSE x

RECURSIVE Gcd(_, _)
Gcd(a, b) == IF b = 0 THEN a ELSE Gcd(b, a % b)

\* Math.round of the fraction n / d (d > 0): the nearest integer, halves up.
Round(n, d) == (2 * n + d) \div (2 * d)

\* The running index is a JavaScript number: Infinity or a fraction n / d.
Infinite == [inf |-> TRUE, n |-> 0, d |-> 1]
Num(n, d) == LET g == Gcd(Abs(n), d) IN
             [inf |-> FALSE, n |-> n \div (IF g = 0 THEN 1 ELSE g),
                             d |-> d \div (IF g = 0 THEN 1 ELSE g)]
Positive(x) == x.inf \/ x.n > 0
AtLeastOne(x) == x.inf \/ x.n >= x.d
Greater(x, y) == /\ ~y.inf
                 /\ (x.inf \/ x.n * y.d > y.n * x.d)
Times(x, n, d) == IF x.inf THEN x ELSE Num(x.n * n, x.d * d)
Minus1(x) == IF x.inf THEN x ELSE Num(x.n - x.d, x.d)

\* ------------------------------------------------------------ the program
VARIABLES
  \* arguments of requestAnimationThread
  fps, limit, strict, highResolution, onUpdate, onFallback,
  \* what the callers of the run do: how many calls of the thread interface
  \* they make, the speeds they hand to accelerate, when the last frame is
  scope,
  \* whether `this` of the loop callback has a smooth() method
  thisSmooth,
  \* closure state of the run
  currentFPS, previousFPS, fpsInterval, updateIndex, currentSpeed,
  index, tick, tock, treshold, status, previousTimestamp,
  start, actualTimestamp, keyframe, interval,
  \* the host
  clock, rafQ, running, frameTs, idleQ, settled, response, thread,
  \* observers
  handlerCalls, outcome, props, stopCalls, resolutions, teardowns,
  calls, call, track, faulted, lateWrites, quiet,
  \* a call of fpsToInterval on its own: its argument and what it returned
  given, converted,
  \* a call of requestInterval on its own: its limit argument, t and timer of
  \* its closure, the timeouts the host has pending, and observers: how often
  \* the handler was invoked, whether stop() was called, what the handler
  \* raised
  intervalLimit, tLeft, timer, timeouts, intervalCalls, stopped, raised

config == <<fps, limit, strict, highResolution, onUpdate, onFallback,
            thisSmooth, scope>>
rate == <<currentFPS, previousFPS, fpsInterval>>
loop == <<index, tick, tock, treshold, status, previousTimestamp>>
host == <<clock, rafQ, running, frameTs, idleQ, settled, response, thread>>
obs == <<handlerCalls, outcome, props, stopCalls, resolutions, teardowns,
         calls, call, track, faulted, lateWrites, quiet>>
convert == <<given, converted>>
timing == <<intervalLimit, tLeft, timer, timeouts, intervalCalls, stopped,
            raised>>
vars == <<config, rate, loop, host, obs, updateIndex, currentSpeed, start,
          actualTimestamp, keyframe, interval, convert, timing>>

defaults == [fps |-> 30, limit |-> Infinite, offset |-> 2, speed |-> 1,
             status |-> "clean", strict |-> FALSE, highResolution |-> FALSE]

\* fpsToInterval: 1000 / parseInt(String(value)), for a rate that divides 1000.
fpsToInterval(value) == 1000 \div value

\* A JavaScript number that is no fraction, and one that is the fraction
\* n / d in lowest terms (d > 0).
NotANumber == [kind |-> "NaN", n |-> 0, d |-> 1]
PlusInfinity == [kind |-> "Infinity", n |-> 0, d |-> 1]
MinusInfinity == [kind |-> "-Infinity", n |-> 0, d |-> 1]
Finite(n, d) == [kind |-> "number", n |-> Num(n, d).n, d |-> Num(n, d).d]

\* Values of an argument that is no number.
Null == [kind |-> "null", n |-> 0, d |-> 1]
Undefined == [kind |-> "undefined", n |-> 0, d |-> 1]
Text == [kind |-> "text", n |-> 0, d |-> 1]

\* No call of the converter on its own yet.
NotCalled == [kind |-> "none", n |-> 0, d |-> 1]

\* fpsToInterval for any argument:
\*   1000 / parseInt(String(value != null ? value : defaults.fps)).
\* null and undefined give the default rate; String of n / d is its decimal
\* notation, of which parseInt keeps the digits before the point, with the
\* sign (parseInt("-0.5") is -0); parseInt of "NaN" and of a non-numeric
\* string is NaN.  1000 / 0 is Infinity, 1000 / -0 is -Infinity.
fpsToIntervalOf(value) ==
  IF value.kind \in {"null", "undefined"}
  THEN Finite(1000, defaults.fps)
  ELSE IF value.kind # "number"
  THEN NotANumber
  ELSE LET digits == Abs(value.n) \div value.d IN
       IF digits = 0
       THEN (IF value.n < 0 THEN MinusInfinity ELSE PlusInfinity)
       ELSE IF value.n < 0
       THEN Finite(-1000, digits)
       ELSE Finite(1000, digits)

\* _fps: parseInt(String(currentFPS)) || fps.
_fps == IF currentFPS # 0 THEN currentFPS ELSE fps

\* _limit: limit * _fps().
_limit == Times(limit, _fps, 1)

\* duration: limit * fps * fpsToInterval(fps), in ms (Infinity without limit).
duration == Times(limit, fps * fpsToInterval(fps), 1)


\* ---------------------------------------------------------- the frame clock
\* A callback registered with requestAnimationFrame: the loop (fn) or the
\* deferred part of a throttle call, with the value and the interval it holds.
FnCallback(id) == [id |-> id, kind |-> "fn", value |-> 0, result |-> 0]
ThrottleCallback(id, value, result) ==
  [id |-> id, kind |-> "throttle", value |-> value, result |-> result]

Ids(q) == {q[i].id : i \in 1..Len(q)}

\* The handle requestAnimationFrame returns: one no live callback has, and not
\* the one keyframe still holds.
FreshId(q, r, k) ==
  CHOOSE i \in 1..(Len(q) + Len(r) + 2) :
    /\ i \notin Ids(q) \cup Ids(r) \cup {k}
    /\ \A j \in 1..(i - 1) : j \in Ids(q) \cup Ids(r) \cup {k}

\* cancelAnimationFrame(k).
Cancel(q, k) == SelectSeq(q, LAMBDA e : e.id # k)

\* cancelAnimationFrame(keyframe); keyframe = requestAnimationFrame(fn).
Reschedule(q, k, id) == Append(Cancel(q, k), FnCallback(id))

\* A teardown that leaves the loop's callback with the frame clock.
TeardownNoCancel(q, k) == q

\* request.finally: keyframe && cancelAnimationFrame(keyframe).
Teardown(q, k) == IF k # 0 THEN Cancel(q, k) ELSE q

\* The fallback timer: requestInterval(..., 1000) and its stop().
NoTimer == [on |-> FALSE, due |-> 0]
requestInterval(now) == [on |-> TRUE, due |-> now + 1000]
StopInterval(t) == NoTimer

\* ------------------------------------------------------------------- Init
\* requestInterval on its own has not been called.
NoRequestInterval ==
  /\ intervalLimit = Infinite
  /\ tLeft = Infinite
  /\ timer = 0
  /\ timeouts = {}
  /\ intervalCalls = 0
  /\ stopped = FALSE
  /\ raised = "no"

NoProps == [first |-> FALSE, last |-> FALSE, tick |-> 0, tickBefore |-> 0,
            tock |-> 0, delta |-> 0, lag |-> 0, multN |-> 0, multD |-> 1,
            interval |-> 0, status |-> "clean", timestamp |-> 0]
NoResponse == [tick |-> 0, tock |-> 0, status |-> "clean", first |-> FALSE,
               last |-> FALSE, index |-> Infinite]
Quiet == [op |-> "return", v |-> 0]
NoTrack == [on |-> FALSE, old |-> 0, new |-> 0, n |-> 0, used |-> 0]

\* The closure of requestAnimationThread once it has returned.
Constructed ==
  /\ currentFPS = fps
  /\ previousFPS = fps
  /\ fpsInterval = fpsToInterval(fps)
  /\ updateIndex = FALSE
  /\ currentSpeed = defaults.speed
  /\ index = Times(limit, fps, 1)
  /\ tick = 0
  /\ tock = 0
  /\ treshold = 0
  /\ status = defaults.status
  /\ previousTimestamp = 0
  /\ start = StartTime
  /\ actualTimestamp = StartTime
  /\ keyframe = 1
  /\ interval = NoTimer
  /\ clock = StartTime
  /\ frameTs = StartTime
  /\ rafQ = <<FnCallback(1)>>
  /\ running = <<>>
  /\ idleQ = <<>>
  /\ settled = FALSE
  /\ response = NoResponse
  /\ thread = TRUE
  /\ handlerCalls = 0
  /\ outcome = "none"
  /\ props = NoProps
  /\ stopCalls = 0
  /\ resolutions = 0
  /\ teardowns = 0
  /\ calls = 0
  /\ call = Quiet
  /\ track = NoTrack
  /\ faulted = FALSE
  /\ lateWrites = FALSE
  /\ quiet = TRUE

Init ==
  /\ fps \in Rates
  /\ limit \in {Infinite} \cup {Num(n, 1) : n \in Limits}
  /\ strict \in BOOLEAN
  /\ highResolution \in BOOLEAN
  /\ onUpdate \in BOOLEAN
  /\ onFallback = onUpdate
  /\ thisSmooth \in BOOLEAN
  /\ scope = [calls |-> MaxCalls, speeds |-> Speeds, maxTime |-> MaxTime]
  /\ given = Undefined
  /\ converted = NotCalled
  /\ NoRequestInterval
  /\ Constructed

\* -------------------------------------------------------- the thread interface
\* What the handler, or a caller between two callbacks, does with the thread.
ControlOps ==
  [op : {"throttle", "resume"}, v : {0} \cup Rates]
    \cup [op : {"pause", "restore"}, v : {0}]
    \cup [op : {"accelerate"}, v : scope.speeds]
HandlerOps ==
  [op : {"return", "throwTruthy", "throwFalsy", "stop"}, v : {0}]
    \cup ControlOps

IsThrottle(c) == c.op \in {"throttle", "pause", "restore", "resume"}

\* A restore that hands no value to throttle.
ThrottleValueNone(c) ==
  CASE c.op = "throttle" -> c.v
    [] c.op \in {"pause", "restore"} -> 0
    [] c.op = "resume"   -> IF c.v = 0 THEN 0
                            ELSE IF previousFPS # 0 THEN previousFPS ELSE fps

\* The value pause / restore / resume / throttle hand to throttle.  For
\* throttle 0 stands for any falsy argument; for resume 0 stands for a call
\* without a numeric argument (handed on as it is, falsy) and any other v for
\* a numeric one (replaced by previousFPS || fps).
ThrottleValue(c) ==
  CASE c.op = "throttle" -> c.v
    [] c.op = "pause"    -> 0
    [] c.op = "restore"  -> fps
    [] c.op = "resume"   -> IF c.v = 0 THEN 0
                            ELSE IF previousFPS # 0 THEN previousFPS ELSE fps

\* A throttle that hands a falsy value to fpsToInterval, which falls back to
\* the default rate.
ThrottleResultDefault(value) ==
  fpsToInterval(IF value # 0 THEN value ELSE defaults.fps)

\* throttle's return value: value ? fpsToInterval(value) : 0.
ThrottleResult(value) == IF value # 0 THEN fpsToInterval(value) ELSE 0

\* A throttle that also starts the loop again.
throttleRestart(q, r, k, value) ==
  Append(Append(q, ThrottleCallback(FreshId(q, r, k), value,
                                    ThrottleResult(value))),
         FnCallback(FreshId(q, r, k) + 1))

\* A throttle whose callback is delivered ahead of the loop's.
throttleFirst(q, r, k, value) ==
  <<ThrottleCallback(FreshId(q, r, k), value, ThrottleResult(value))>> \o q

\* The synchronous part of throttle(value): the rate is not written, a
\* callback that will write it is registered with the frame clock.
throttle(q, r, k, value) ==
  Append(q, ThrottleCallback(FreshId(q, r, k), value, ThrottleResult(value)))

\* accelerate(value), for a number.
accelerate(value) == value

\* thread.fps() and thread.interval().
ThreadFps == IF fpsInterval # 0 THEN currentFPS ELSE 0
ThreadInterval == fpsInterval

PendingThrottle(q) == \E i \in 1..Len(q) : q[i].kind = "throttle"

\* The observer of a throttle call: the interval before and the one asked for.
Tracked(q, r, value) ==
  IF PendingThrottle(q) \/ PendingThrottle(r) THEN NoTrack
  ELSE [on |-> TRUE, old |-> fpsInterval, new |-> ThrottleResult(value),
        n |-> 0, used |-> 0]

\* The observer of the calls of a stop: none, one, or two and more.
Counted(n) == IF n < 2 THEN n + 1 ELSE n

\* The Promise's resolve function settles it once.
Resolves(isSettled) == IF isSettled THEN 0 ELSE 1


\* ------------------------------------------------------------- the loop: fn
\* The frame clock starts a frame d ms after the previous one and delivers, in
\* registration order, the callbacks registered before the frame started.  The
\* host runs the idle callbacks that are waiting before it starts a frame.
BeginFrame ==
  \E d \in FrameSteps :
    /\ running = <<>>
    /\ rafQ # <<>>
    /\ idleQ = <<>>
    /\ frameTs + d <= scope.maxTime
    /\ frameTs + d >= clock
    /\ interval.on => frameTs + d <= interval.due
    /\ running' = rafQ
    /\ rafQ' = <<>>
    /\ frameTs' = frameTs + d
    /\ clock' = frameTs + d
    /\ UNCHANGED <<timing, convert, config, rate, loop, obs, updateIndex, currentSpeed, start,
                   actualTimestamp, keyframe, interval, idleQ, settled,
                   response, thread>>

\* Math.round(1000 / (timestamp - previousTimestamp)); 0 stands for a value
\* that is no positive rate (Infinity or a negative number).
ActualFPS(timestamp) ==
  LET x == timestamp - previousTimestamp IN
  IF x > 0 THEN Round(1000, x) ELSE 0

\* The multiplier n / d: ratio * currentSpeed, in strict mode also scaled by
\* fpsInterval / fpsToInterval(fps); ratio = 1 + lag / fpsInterval.
MultiplierN(delta) == delta * currentSpeed
MultiplierD == IF strict THEN fpsToInterval(fps) ELSE fpsInterval

\* A tick update that looks at the multiplier alone.
TickStepNoLag(n, d, lag) ==
  IF n < defaults.offset * d THEN 1 ELSE Round(n, d)

\* "Update the tick relative to the current time": what is added to tick.
TickStep(n, d, lag) ==
  IF n < defaults.offset * d /\ lag < fpsInterval * defaults.offset
  THEN 1 ELSE Round(n, d)

\* The strict rescale of the running index after a throttle.
Rescaled(i) ==
  LET newIndex == Times(i, currentFPS, previousFPS) IN
  IF strict /\ i # newIndex /\ updateIndex
  THEN (IF Greater(newIndex, _limit) THEN i ELSE newIndex)
  ELSE i
RescaledFlag(i) ==
  IF strict /\ i # Times(i, currentFPS, previousFPS) /\ updateIndex
  THEN FALSE ELSE updateIndex

\* "Updates the running index for an animation cycle", after the handler.
Countdown(i) == IF AtLeastOne(i) THEN Minus1(i) ELSE Num(0, 1)

\* A loop that fires on every frame while it is not paused.
FiresAlways(delta) == fpsInterval # 0

\* if (fpsInterval && delta > fpsInterval): the tick fires.
Fires(delta) == fpsInterval # 0 /\ delta > fpsInterval

\* A loop without the last-frame correction.
LastFrameNever(delta, now) == FALSE

\* A loop without the duration cutoff.
ExpiredNever(now) == FALSE

\* "Ensure the last frame is rendered correctly": duration - delta < _now() - start.
LastFrame(delta, now) ==
  /\ ~duration.inf
  /\ duration.n - delta * duration.d < (now - start) * duration.d

\* "Stops a animation cycles longer than the expected limit".
Expired(now) ==
  /\ ~duration.inf
  /\ (now - start) * duration.d > duration.n

\* catch (exception) { if (exception) { index = 0 } }
Catch(i, exception) == IF exception THEN Num(0, 1) ELSE i

\* A completion payload that does not say it is the last one.
PayloadNotLast(now) == [tick |-> tick, tock |-> tock, status |-> status,
                        first |-> tick <= 0, last |-> FALSE, index |-> index]

\* The completion payload.
Payload(now) == [tick |-> tick, tock |-> tock, status |-> status,
                 first |-> tick <= 0, last |-> TRUE, index |-> index]

\* What a call of the Promise's resolve function (stop) and the reactions of
\* request.then / request.finally leave: q and r are the frame clock's queues
\* after the rest of the callback.
Settle(q, r, k, n, payload) ==
  /\ stopCalls' = IF n > 0 THEN Counted(stopCalls) ELSE stopCalls
  /\ settled' = (settled \/ n > 0)
  /\ IF n > 0 /\ ~settled
     THEN /\ resolutions' = resolutions + Resolves(settled)
          /\ teardowns' = teardowns + 1
          /\ response' = payload
          /\ thread' = FALSE
          /\ rafQ' = Teardown(q, k)
          /\ running' = Teardown(r, k)
     ELSE /\ UNCHANGED <<resolutions, teardowns, response, thread>>
          /\ rafQ' = q
          /\ running' = r

\* A loop whose else branch does nothing.
FnTerminalSilent(now) == UNCHANGED vars

\* The else branch of fn: the running index is used up.
FnTerminal(now) ==
  /\ Settle(rafQ, Tail(running), keyframe, 1, Payload(now))
  /\ interval' = IF settled THEN interval ELSE StopInterval(interval)
  /\ outcome' = "terminal"
  /\ track' = track
  /\ UNCHANGED <<timing, convert, config, rate, loop, updateIndex, currentSpeed, start,
                 actualTimestamp, keyframe, idleQ, clock, frameTs,
                 handlerCalls, props, calls, call, faulted, lateWrites, quiet>>


\* What the handler's call of the thread interface leaves in the frame clock's
\* queue, the speed, the fallback timer and the call observers.
HandlerQueue(q, r, k, h) ==
  IF IsThrottle(h) THEN throttle(q, r, k, ThrottleValue(h)) ELSE q
HandlerSpeed(h) ==
  IF h.op = "accelerate" THEN accelerate(h.v) ELSE currentSpeed
HandlerTrack(t, q, r, h) ==
  IF IsThrottle(h) THEN Tracked(q, r, ThrottleValue(h)) ELSE t
HandlerStops(h) ==
  IF h.op = "stop" THEN 1 ELSE 0
Throws(h) == h.op \in {"throwTruthy", "throwFalsy"}

\* The observer of the fire-or-skip decision of one loop invocation.
Used(t) ==
  IF t.on /\ t.n < 2
  THEN [t EXCEPT !.n = t.n + 1, !.used = fpsInterval]
  ELSE NoTrack

\* The branch of fn taken while the running index is positive.  lat: how far
\* performance.now() is past the frame's timestamp; h: what the handler does
\* if it is called.
FnLive(lat, h) ==
  LET nowLate == frameTs + lat
      now == IF highResolution THEN nowLate ELSE frameTs
      delta == now - (IF previousTimestamp # 0 THEN previousTimestamp ELSE start)
      runtime == now - actualTimestamp
      idle1 == IF runtime > fpsInterval * _fps
               THEN Append(idleQ, "update") ELSE idleQ
      idle2 == Append(idle1, "accumulate")
      id == FreshId(rafQ, Tail(running), keyframe)
      q1 == Reschedule(rafQ, keyframe, id)
      r1 == Cancel(Tail(running), keyframe)
      fires == Fires(delta)
      lag == delta - fpsInterval
      mN == MultiplierN(delta)
      mD == MultiplierD
      last == IF index.inf THEN FALSE
              ELSE tick * index.d >= index.n * _fps
      index1 == Rescaled(index)
      tick1 == tick + TickStep(mN, mD, lag)
      status1 == IF ActualFPS(frameTs) # currentFPS
                 THEN "dirty" ELSE defaults.status
      treshold1 == treshold + delta
      index2 == Countdown(index1)
      dirtyLast == LastFrame(delta, nowLate)
      t1 == Used(track)
  IN
  /\ keyframe' = id
  /\ idleQ' = idle2
  /\ clock' = nowLate
  /\ UNCHANGED <<timing, convert, config, rate, start, actualTimestamp, frameTs, lateWrites>>
  /\ IF currentSpeed = 0 \/ ~fires
     THEN \* no tick: the loop is only rescheduled
          /\ h = Quiet
          /\ outcome' = IF currentSpeed = 0 THEN "still" ELSE "skip"
          /\ track' = t1
          /\ rafQ' = q1
          /\ running' = r1
          /\ UNCHANGED <<loop, updateIndex, currentSpeed, interval, settled,
                         response, thread, handlerCalls, props, stopCalls, resolutions,
                         teardowns, calls, call, faulted, quiet>>
     ELSE IF Expired(now)
     THEN \* the run is longer than its duration
          /\ h = Quiet
          /\ index' = Num(0, 1)
          /\ outcome' = "expired"
          /\ track' = t1
          /\ rafQ' = q1
          /\ running' = r1
          /\ UNCHANGED <<tick, tock, treshold, status, previousTimestamp,
                         updateIndex, currentSpeed, interval, settled, response, thread,
                         handlerCalls, props, stopCalls, resolutions,
                         teardowns, calls, call, faulted, quiet>>
     ELSE IF ~thisSmooth
     THEN \* this.smooth is no function: a TypeError before the handler
          /\ h = Quiet
          /\ index' = Catch(index1, TRUE)
          /\ updateIndex' = RescaledFlag(index)
          /\ tick' = tick1
          /\ status' = status1
          /\ treshold' = treshold1
          /\ outcome' = "fault"
          /\ track' = t1
          /\ rafQ' = q1
          /\ running' = r1
          /\ UNCHANGED <<tock, previousTimestamp, currentSpeed, interval,
                         settled, response, thread, handlerCalls, props,
                         stopCalls, resolutions, teardowns, calls, call, faulted,
                         quiet>>
     ELSE \* the handler is called
          /\ IsThrottle(h) \/ h.op = "accelerate" => calls < scope.calls
          /\ handlerCalls' = handlerCalls + 1
          /\ quiet' = (quiet /\ h = Quiet)
          /\ props' = [first |-> tick1 <= 1, last |-> last, tick |-> tick1,
                       tickBefore |-> tick, tock |-> tock, delta |-> delta,
                       lag |-> lag, multN |-> mN, multD |-> mD,
                       interval |-> fpsInterval, status |-> status1,
                       timestamp |-> now]
          /\ calls' = IF IsThrottle(h) \/ h.op = "accelerate"
                      THEN calls + 1 ELSE calls
          /\ call' = IF IsThrottle(h) \/ h.op = "accelerate" THEN h ELSE call
          /\ currentSpeed' = HandlerSpeed(h)
          /\ interval' = IF IsThrottle(h) \/ (HandlerStops(h) > 0 /\ ~settled)
                         THEN StopInterval(interval) ELSE interval
          /\ track' = HandlerTrack(t1, q1, r1, h)
          /\ tick' = tick1
          /\ updateIndex' = RescaledFlag(index)
          /\ status' = IF ~Throws(h) /\ dirtyLast THEN "dirty" ELSE status1
          /\ IF Throws(h)
             THEN /\ index' = Catch(index1, h.op = "throwTruthy")
                  /\ treshold' = treshold1
                  /\ faulted' = (faulted \/ h.op = "throwTruthy")
                  /\ outcome' = "thrown"
                  /\ UNCHANGED <<tock, previousTimestamp>>
             ELSE /\ index' = IF dirtyLast THEN Num(1, 1) ELSE index2
                  /\ treshold' = treshold1 - fpsInterval
                  /\ previousTimestamp' = now
                  /\ tock' = Round(tick1, _fps)
                  /\ faulted' = faulted
                  /\ outcome' = "fired"
          /\ Settle(HandlerQueue(q1, r1, id, h), r1, id, HandlerStops(h),
                    [tick |-> tick1, tock |-> tock, status |-> status1,
                     first |-> tick1 <= 0, last |-> TRUE, index |-> index1])


\* fn: one invocation of the loop by the frame clock.
Fn ==
  /\ running # <<>>
  /\ Head(running).kind = "fn"
  /\ IF Positive(index)
     THEN \E h \in HandlerOps : FnLive(NowLag, h)
     ELSE FnTerminal(frameTs)

\* The callback throttle registered: the rate and the interval are written.
ThrottleFrame ==
  /\ running # <<>>
  /\ Head(running).kind = "throttle"
  /\ previousFPS' = currentFPS
  /\ currentFPS' = IF Head(running).value # 0 THEN Head(running).value ELSE _fps
  /\ fpsInterval' = Head(running).result
  /\ updateIndex' = TRUE
  /\ running' = Tail(running)
  /\ lateWrites' = (lateWrites \/ settled)
  /\ UNCHANGED <<timing, convert, config, loop, currentSpeed, start, actualTimestamp, keyframe,
                 interval, clock, rafQ, frameTs, idleQ, settled, response,
                 thread, handlerCalls, outcome, props, stopCalls, resolutions,
                 teardowns, calls, call, track, faulted, quiet>>

\* A Control whose throttle writes the rate at once instead of deferring it.
ControlSync ==
  \E c \in ControlOps :
    /\ running = <<>>
    /\ idleQ = <<>>
    /\ thread
    /\ calls < scope.calls
    /\ calls' = calls + 1
    /\ call' = c
    /\ currentSpeed' = HandlerSpeed(c)
    /\ interval' = IF IsThrottle(c) THEN StopInterval(interval) ELSE interval
    /\ track' = HandlerTrack(track, rafQ, running, c)
    /\ quiet' = FALSE
    /\ IF IsThrottle(c)
       THEN /\ previousFPS' = currentFPS
            /\ currentFPS' = IF ThrottleValue(c) # 0 THEN ThrottleValue(c)
                              ELSE _fps
            /\ fpsInterval' = ThrottleResult(ThrottleValue(c))
            /\ updateIndex' = TRUE
       ELSE UNCHANGED <<rate, updateIndex>>
    /\ UNCHANGED <<timing, convert, config, loop, start, actualTimestamp, keyframe, clock, rafQ,
                   running, frameTs, idleQ, settled, response, thread,
                   handlerCalls, outcome, props, stopCalls, resolutions,
                   teardowns, faulted, lateWrites>>

\* A call of throttle, pause, resume, restore or accelerate by a task of its
\* own (no callback running, no idle callback waiting), while the thread
\* object still has its methods.
Control ==
  \E c \in ControlOps :
    /\ running = <<>>
    /\ idleQ = <<>>
    /\ thread
    /\ calls < scope.calls
    /\ calls' = calls + 1
    /\ call' = c
    /\ rafQ' = HandlerQueue(rafQ, running, keyframe, c)
    /\ currentSpeed' = HandlerSpeed(c)
    /\ interval' = IF IsThrottle(c) THEN StopInterval(interval) ELSE interval
    /\ track' = HandlerTrack(track, rafQ, running, c)
    /\ quiet' = FALSE
    /\ UNCHANGED <<timing, convert, config, rate, loop, updateIndex, start, actualTimestamp,
                   keyframe, clock, running, frameTs, idleQ, settled, response,
                   thread, handlerCalls, outcome, props, stopCalls,
                   resolutions, teardowns, faulted, lateWrites>>

\* The same call after request.finally has deleted the keys of the thread
\* object: thread.throttle(...) cannot be called any more (thread.throttle is
\* undefined), a method taken from the thread before (const { throttle } =
\* thread) is the same closure as before and runs as before.
LateControl ==
  \E c \in ControlOps :
    /\ running = <<>>
    /\ idleQ = <<>>
    /\ ~thread
    /\ calls < scope.calls
    /\ calls' = calls + 1
    /\ call' = c
    /\ rafQ' = HandlerQueue(rafQ, running, keyframe, c)
    /\ currentSpeed' = HandlerSpeed(c)
    /\ interval' = IF IsThrottle(c) THEN StopInterval(interval) ELSE interval
    /\ track' = HandlerTrack(track, rafQ, running, c)
    /\ quiet' = FALSE
    /\ UNCHANGED <<timing, convert, config, rate, loop, updateIndex, start, actualTimestamp,
                   keyframe, clock, running, frameTs, idleQ, settled, response,
                   thread, handlerCalls, outcome, props, stopCalls,
                   resolutions, teardowns, faulted, lateWrites>>

\* A call, by a task of its own, of the stop the handler was given.
Stop ==
  /\ running = <<>>
  /\ idleQ = <<>>
  /\ handlerCalls > 0
  /\ Settle(rafQ, running, keyframe, 1, Payload(clock))
  /\ interval' = IF settled THEN interval ELSE StopInterval(interval)
  /\ quiet' = FALSE
  /\ UNCHANGED <<timing, convert, config, rate, loop, updateIndex, currentSpeed, start,
                 actualTimestamp, keyframe, clock, frameTs, idleQ,
                 handlerCalls, outcome, props, calls, call, track, faulted,
                 lateWrites>>

\* An idle callback: update or accumulate.  The stop they hand to onUpdate and
\* onFallback is not the Promise's resolve function (which only the Promise
\* executor has in scope) but the global of that name: calling it does nothing
\* to the run.  A configured onUpdate / onFallback calls the stop it is handed.
Idle ==
  /\ running = <<>>
  /\ idleQ # <<>>
  /\ idleQ' = Tail(idleQ)
  /\ IF Head(idleQ) = "update"
     THEN /\ actualTimestamp' = clock
          /\ stopCalls' = IF onUpdate THEN Counted(stopCalls) ELSE stopCalls
          /\ UNCHANGED interval
     ELSE /\ interval' = IF onFallback THEN requestInterval(clock)
                         ELSE StopInterval(interval)
          /\ UNCHANGED <<actualTimestamp, stopCalls>>
  /\ UNCHANGED <<timing, convert, config, rate, loop, updateIndex, currentSpeed, start, clock,
                 keyframe, rafQ, running, frameTs, settled, response, thread,
                 handlerCalls, outcome, props, resolutions, teardowns, calls, call,
                 track, faulted, lateWrites, quiet>>

\* The fallback timer fires: it is armed again and onFallback is called.
Fallback ==
  /\ running = <<>>
  /\ interval.on
  /\ interval.due <= scope.maxTime
  /\ clock' = IF interval.due > clock THEN interval.due ELSE clock
  /\ interval' = requestInterval(clock')
  /\ stopCalls' = Counted(stopCalls)
  /\ UNCHANGED <<timing, convert, config, rate, loop, updateIndex, currentSpeed, start,
                 actualTimestamp, keyframe, rafQ, running, frameTs, idleQ,
                 settled, response, thread, handlerCalls, outcome, props,
                 resolutions, teardowns, calls, call, track, faulted, lateWrites,
                 quiet>>

Next ==
  \/ BeginFrame
  \/ Fn
  \/ ThrottleFrame
  \/ Control
  \/ LateControl
  \/ Stop
  \/ Idle
  \/ Fallback

Spec == Init /\ [][Next]_vars

\* Runs with a positive limit on a host that keeps going: the frame clock
\* delivers the next frame, a delivered frame runs its callbacks, and the
\* idle callbacks and the fallback timer get their turn.
InitLive ==
  /\ fps \in Rates
  /\ limit \in {Num(n, 1) : n \in {m \in Limits : m > 0}}
  /\ strict \in BOOLEAN
  /\ highResolution \in BOOLEAN
  /\ onUpdate = TRUE
  /\ onFallback = onUpdate
  /\ thisSmooth \in BOOLEAN
  /\ scope = [calls |-> MoreCalls, speeds |-> MoreSpeeds, maxTime |-> LongTime]
  /\ given = Undefined
  /\ converted = NotCalled
  /\ NoRequestInterval
  /\ Constructed

SpecLive ==
  /\ InitLive
  /\ [][Next]_vars
  /\ WF_vars(BeginFrame)
  /\ WF_vars(Fn)
  /\ WF_vars(ThrottleFrame)
  /\ WF_vars(Idle)
  /\ WF_vars(Fallback)

\* ------------------------------------------- requestInterval on its own
\* requestInterval(handler, duration, limit) has just returned: t is the
\* limit (Infinity without one) and the first timeout is pending.
InitInterval ==
  /\ fps = defaults.fps
  /\ limit = Infinite
  /\ strict = FALSE
  /\ highResolution = FALSE
  /\ onUpdate = FALSE
  /\ onFallback = FALSE
  /\ thisSmooth = TRUE
  /\ scope = [calls |-> MaxCalls, speeds |-> Speeds, maxTime |-> MaxTime]
  /\ given = Undefined
  /\ converted = NotCalled
  /\ intervalLimit \in {Infinite} \cup {Num(n, 1) : n \in 0..MaxIntervalLimit}
  /\ tLeft = intervalLimit
  /\ timer = 1
  /\ timeouts = {1}
  /\ intervalCalls = 0
  /\ stopped = FALSE
  /\ raised = "no"
  /\ Constructed

\* What the handler of the interval does: it returns, it calls stop() of the
\* interval, or it throws a truthy or a falsy value.
IntervalHandlerOps == {"return", "stop", "throwTruthy", "throwFalsy"}

\* A test of t that lets the handler run once more at 0.
ProceedsAtZero(x) == x.inf \/ x.n >= 0

\* typeof t === "undefined" || t-- > 0: the test, before the decrement.
Proceeds(x) == Positive(x)

\* A pending timeout fires and runs fn.  t is decremented by the test
\* whatever its outcome.  When the test passes: the timer fn holds is
\* cleared, the next timeout is set, and then the handler is called; a
\* truthy value it throws sets t to 0, a falsy one is ignored.
TimerFires ==
  \E id \in timeouts, h \in IntervalHandlerOps :
    LET fresh == timer + 1
        left == timeouts \ {id}
    IN
    /\ intervalCalls < MaxIntervalCalls
    /\ IF Proceeds(tLeft)
       THEN /\ timer' = fresh
            /\ timeouts' = IF h = "stop" THEN left \ {timer}
                            ELSE (left \ {timer}) \cup {fresh}
            /\ intervalCalls' = intervalCalls + 1
            /\ tLeft' = IF h = "throwTruthy" THEN Num(0, 1) ELSE Minus1(tLeft)
            /\ stopped' = (stopped \/ h = "stop")
            /\ raised' = IF h = "throwTruthy" THEN "truthy"
                          ELSE IF h = "throwFalsy" THEN "falsy"
                          ELSE raised
       ELSE /\ h = "return"
            /\ tLeft' = Minus1(tLeft)
            /\ timeouts' = left
            /\ UNCHANGED <<timer, intervalCalls, stopped, raised>>
    /\ UNCHANGED <<intervalLimit, convert, config, rate, loop, host, obs,
                   updateIndex, currentSpeed, start, actualTimestamp,
                   keyframe, interval>>

\* stop() of the interval, called between two timeouts:
\*   timer !== undefined && clearTimeout(timer).
IntervalStop ==
  /\ ~stopped
  /\ stopped' = TRUE
  /\ timeouts' = timeouts \ {timer}
  /\ UNCHANGED <<intervalLimit, tLeft, timer, intervalCalls, raised, convert,
                 config, rate, loop, host, obs, updateIndex, currentSpeed,
                 start, actualTimestamp, keyframe, interval>>

NextInterval ==
  \/ TimerFires
  \/ IntervalStop

SpecInterval == InitInterval /\ [][NextInterval]_vars

\* The rate converter on its own: fpsToInterval is exported, and is called
\* with any value.
Values ==
  {Null, Undefined, Text, NotANumber}
    \cup {[kind |-> "number", n |-> n, d |-> d] :
             n \in -MaxRate..MaxRate, d \in Denominators}

InitConvert ==
  /\ fps = defaults.fps
  /\ limit = Infinite
  /\ strict = FALSE
  /\ highResolution = FALSE
  /\ onUpdate = FALSE
  /\ onFallback = FALSE
  /\ thisSmooth = TRUE
  /\ scope = [calls |-> MaxCalls, speeds |-> Speeds, maxTime |-> MaxTime]
  /\ given \in {v \in Values : Gcd(Abs(v.n), v.d) = 1}
  /\ converted = NotCalled
  /\ NoRequestInterval
  /\ Constructed

\* A call of fpsToInterval(given).
Convert ==
  /\ converted = NotCalled
  /\ converted' = fpsToIntervalOf(given)
  /\ UNCHANGED <<given, timing, config, rate, loop, host, obs, updateIndex,
                 currentSpeed, start, actualTimestamp, keyframe, interval>>

NextConvert == Convert

SpecConvert == InitConvert /\ [][NextConvert]_vars

\* Runs in which the callers make more calls of the thread interface (a pause
\* and a restore, two throttles), read the frame's timestamp and have
\* onUpdate and onFallback configured.
InitCalls ==
  /\ fps \in Rates
  /\ limit \in {Infinite} \cup {Num(n, 1) : n \in Limits}
  /\ strict \in BOOLEAN
  /\ highResolution = FALSE
  /\ onUpdate = TRUE
  /\ onFallback = onUpdate
  /\ thisSmooth \in BOOLEAN
  /\ scope = [calls |-> MoreCalls, speeds |-> MoreSpeeds, maxTime |-> LongTime]
  /\ given = Undefined
  /\ converted = NotCalled
  /\ NoRequestInterval
  /\ Constructed

SpecCalls == InitCalls /\ [][Next]_vars

\* Strict runs of StrictLimit tocks, with the same callers.
InitStrict ==
  /\ fps \in Rates
  /\ limit = Num(StrictLimit, 1)
  /\ strict = TRUE
  /\ highResolution = FALSE
  /\ onUpdate = TRUE
  /\ onFallback = onUpdate
  /\ thisSmooth \in BOOLEAN
  /\ scope = [calls |-> MoreCalls, speeds |-> MoreSpeeds, maxTime |-> LongTime]
  /\ given = Undefined
  /\ converted = NotCalled
  /\ NoRequestInterval
  /\ Constructed

SpecStrict == InitStrict /\ [][Next]_vars


\* ----------------------------------------------------------------- claims
LoopCallbacks(q) == Cardinality({i \in 1..Len(q) : q[i].kind = "fn"})
Zero == Num(0, 1)
\* The longest distance between two frames.
Widest == CHOOSE d \in FrameSteps : \A e \in FrameSteps : e <= d

\* C1: a non-strict run with rate fps and limit L, a handler that only
\* returns, no call of the thread interface and a frame clock that misses no
\* frame has invoked the handler exactly L * fps times when the loop resolves
\* the completion signal.  Stated for the builds in which `this` of the loop
\* has smooth(), i.e. in which the loop reaches the handler.
C1_ExactCount ==
  (thisSmooth /\ quiet /\ ~strict /\ ~limit.inf /\ limit.n > 0
     /\ outcome = "terminal")
    => handlerCalls * limit.d = limit.n * fps

\* C2: no firing tick is diverted into the fault path by the computation that
\* precedes the handler call.
C2_NoInternalFault == outcome # "fault"

\* C3: once the completion signal is resolved, the handler is never invoked
\* again, whatever callbacks are still delivered.
C3_NoCallAfterResolve == [][settled => handlerCalls' = handlerCalls]_vars
C3_Witness == settled /\ handlerCalls > 0 /\ lateWrites /\ Positive(index)

\* C4: when stop has been called two or more times, from whatever context, the
\* completion signal has been resolved exactly once and torn down exactly once.
C4_StopResolvesOnce == stopCalls >= 2 => resolutions = 1 /\ teardowns = 1

\* C5: after a handler invocation that raised, whatever the value
\* raised, the running index is 0.
C5_AnyThrowStops == outcome = "thrown" => index = Zero

C7_OneCallback == Len(rafQ) + Len(running) <= 1
\* C7 amended: at most one callback of the loop is outstanding with the frame
\* clock; every pending throttle request holds a callback of its own.
C7_OneLoopCallback == LoopCallbacks(rafQ) + LoopCallbacks(running) <= 1
C7_Witness ==
  /\ LoopCallbacks(rafQ) = 1
  /\ PendingThrottle(rafQ)
  /\ ~settled

\* C8: after the teardown no callback of the run is scheduled with the frame
\* clock and none has written the run's state.
C8_ClockReleased ==
  teardowns > 0 => rafQ = <<>> /\ running = <<>> /\ ~lateWrites

\* C9 as stated: the first loop invocation that follows a throttle call runs
\* with the interval the call asked for.
C9_NextTickNewInterval ==
  (track.on /\ track.n = 1) => track.used = track.new
\* C9 amended: with no other request pending, the first loop invocation that
\* follows a throttle call still runs with the interval from before the call,
\* and the second one with the interval the call asked for.
C9_SecondTickNewInterval ==
  /\ (track.on /\ track.n = 1) => track.used = track.old
  /\ (track.on /\ track.n = 2) => track.used = track.new
C9_Witness == track.on /\ track.n = 2 /\ track.old # track.new

\* C10: the rate, the previous rate and the interval are written by a callback
\* of the frame clock only, never in the step that calls throttle, pause,
\* resume or restore.
C10_RateDeferred ==
  [][<<currentFPS, previousFPS, fpsInterval>>' # <<currentFPS, previousFPS, fpsInterval>>
       => /\ running # <<>>
          /\ Head(running).kind = "throttle"
          /\ calls' = calls]_vars
C10_Witness ==
  /\ calls > 0
  /\ \E i \in 1..Len(rafQ) :
       rafQ[i].kind = "throttle" /\ rafQ[i].result # fpsInterval

\* C11: the callback of a pause holds the interval 0 (the value pause
\* returned) and leaves the interval at 0; while the interval is 0, fps() and
\* interval() are 0, no step invokes the handler or changes tick or tock, and a
\* loop invocation with budget left registers the loop again.
C11_PauseHolds ==
  [][/\ (/\ running # <<>>
         /\ Head(running).kind = "throttle"
         /\ Head(running).value = 0
         /\ running' # running)
          => Head(running).result = 0 /\ fpsInterval' = 0
     /\ fpsInterval = 0
          => /\ ThreadFps = 0
             /\ ThreadInterval = 0
             /\ handlerCalls' = handlerCalls
             /\ tick' = tick
             /\ tock' = tock
     /\ (/\ fpsInterval = 0
         /\ running # <<>>
         /\ Head(running).kind = "fn"
         /\ Positive(index)
         /\ running' # running)
          => LoopCallbacks(rafQ') = 1]_vars
C11_Witness ==
  /\ call.op = "pause"
  /\ track.on /\ track.n = 2 /\ track.used = 0
  /\ fpsInterval = 0
  /\ outcome = "skip"
  /\ handlerCalls > 0
  /\ LoopCallbacks(rafQ) = 1

\* C12 as stated: the first firing that follows a restore() called during a
\* pause runs with the interval of the initial rate and advances tick by one.
C12_RestoreByOne ==
  (/\ call.op = "restore"
   /\ track.on /\ track.n = 2 /\ track.old = 0
   /\ outcome = "fired")
    => /\ props.interval = fpsToInterval(fps)
       /\ props.tick = props.tickBefore + 1
\* C12 amended: the second loop invocation that follows a restore() runs with
\* the interval of the initial rate; when the restore was called during a
\* pause and that invocation fires, tick goes on from the value it had, by 1
\* when the multiplier is below 2 and the lag below twice the interval, and by
\* round(multiplier), the intervals that have passed since the last firing,
\* otherwise.
C12_RestoreCatchesUp ==
  /\ (call.op = "restore" /\ track.on /\ track.n = 2)
       => track.used = fpsToInterval(fps)
  /\ (/\ call.op = "restore"
      /\ track.on /\ track.n = 2 /\ track.old = 0
      /\ outcome = "fired")
       => /\ props.interval = fpsToInterval(fps)
          /\ tick = props.tick
          /\ props.tick - props.tickBefore =
               IF /\ props.multN < 2 * props.multD
                  /\ props.lag < 2 * props.interval
               THEN 1
               ELSE (2 * props.multN + props.multD) \div (2 * props.multD)
C12_Witness ==
  /\ call.op = "restore"
  /\ track.on /\ track.n = 2 /\ track.old = 0
  /\ outcome = "fired"
  /\ props.tickBefore >= 1
  /\ props.tick >= props.tickBefore + 2

\* C13: the callback a resume(rate) call registers holds that rate, and the one
\* a resume() call without argument registers holds a non-zero rate and its
\* non-zero interval.
C13_ResumeAsThrottle ==
  (/\ call.op = "resume"
   /\ rafQ # <<>>
   /\ rafQ[Len(rafQ)].kind = "throttle")
    => IF call.v # 0
       THEN rafQ[Len(rafQ)].value = call.v
       ELSE /\ rafQ[Len(rafQ)].value # 0
            /\ rafQ[Len(rafQ)].result = fpsToInterval(rafQ[Len(rafQ)].value)

\* C14: a call of the thread interface made after the completion signal has
\* resolved registers no callback with the frame clock and leaves the speed
\* and the fallback timer as they are.
C14_InertAfterResolve ==
  [][(settled /\ calls' # calls)
       => /\ rafQ' = rafQ
          /\ currentSpeed' = currentSpeed
          /\ interval' = interval]_vars

\* C15: in a run without limit no handler invocation has received last = true,
\* and the loop has reached its terminal branch only after the handler raised
\* (a stop resolves the run without the terminal branch).
C15_UnboundedRuns ==
  limit.inf => /\ ~props.last
               /\ outcome = "terminal" => faulted

\* C16: the first handler invocation receives first = true and every later
\* one first = false.
C16_FirstOnce ==
  [][handlerCalls' > handlerCalls
       => props'.first = (handlerCalls = 0)]_vars

\* C17: in a bounded run no handler invocation follows one that received
\* last = true, and when the loop reaches its terminal branch after handler
\* invocations that did not raise, the final one had received last = true.
C17_LastOnFinal ==
  [][~limit.inf
       => /\ handlerCalls' > handlerCalls => ~props.last
          /\ (outcome' = "terminal" /\ handlerCalls > 0 /\ ~faulted)
               => props.last]_vars

\* C18: no step makes tick or tock smaller.
C18_Monotone == [][tick' >= tick /\ tock' >= tock]_vars

\* C19: a strict bounded run in which the rate was changed once, by one
\* throttle(rate) to another non-zero rate, reaches its terminal branch no
\* earlier than one interval before its duration and no later than one
\* interval and two frames after it.
C19_EndsAtDuration ==
  [][(/\ strict
      /\ ~limit.inf
      /\ outcome' = "terminal"
      /\ outcome # "terminal"
      /\ ~faulted
      /\ calls = 1
      /\ call.op = "throttle"
      /\ currentFPS # fps
      /\ fpsInterval # 0)
       => /\ (frameTs - start) * duration.d
               >= duration.n - fpsInterval * duration.d
          /\ (frameTs - start) * duration.d
               <= duration.n + (fpsInterval + 2 * Widest) * duration.d]_vars

\* C20: in a strict bounded run the running index a firing tick leaves is not
\* above limit * rate, for the rate in force on that tick.
C20_IndexWithinBudget ==
  [][(/\ strict
      /\ ~limit.inf
      /\ handlerCalls' > handlerCalls
      /\ outcome' = "fired")
       => ~Greater(index', _limit)]_vars

\* C22: the running index is never below 0.
C22_IndexNotNegative == index.inf \/ index.n >= 0

\* C26: a run started with a negative limit has the running index of a run
\* without limit, and its loop reaches the terminal branch only after the
\* handler raised.
C26_InvalidLimitUnbounded ==
  (~limit.inf /\ limit.n < 0)
    => /\ index.inf
       /\ outcome = "terminal" => faulted

\* C21: when a non-strict run with a positive limit, throttled once to another
\* non-zero rate, reaches the terminal branch without the handler having
\* raised, the handler has been invoked limit * fps times.
C21_BudgetKept ==
  [][(/\ thisSmooth
      /\ ~strict
      /\ ~limit.inf /\ limit.n > 0
      /\ outcome' = "terminal"
      /\ outcome # "terminal"
      /\ ~faulted
      /\ calls = 1
      /\ call.op = "throttle"
      /\ currentFPS # fps
      /\ fpsInterval # 0)
       => handlerCalls * limit.d = limit.n * fps]_vars

\* C24: when the loop has reached its terminal branch after the handler
\* raised, the completion payload has status dirty.
C24_FaultIsDirty ==
  (outcome = "terminal" /\ faulted) => response.status = "dirty"

\* C27: with no call of the thread interface and a handler that only returns,
\* the threshold accumulator after a fired tick is not above the elapsed time
\* of that firing.
C27_NoDriftKept ==
  (quiet /\ outcome = "fired") => treshold <= props.delta

\* delta of the loop invocation about to run: now - (previousTimestamp || start).
Elapsed ==
  LET now == IF highResolution THEN frameTs + NowLag ELSE frameTs IN
  now - (IF previousTimestamp # 0 THEN previousTimestamp ELSE start)

\* The frame clock is about to invoke the loop.
LoopRuns == running # <<>> /\ Head(running).kind = "fn" /\ running' # running

\* C28: a loop invocation entered with a running index of 0 or less resolves
\* the completion signal with last = true, does not invoke the handler, leaves
\* tick and tock alone and leaves no loop callback on the frame clock.
C28_TerminalBeforeFiring ==
  [][(LoopRuns /\ ~Positive(index))
       => /\ settled'
          /\ resolutions' = 1
          /\ response'.last
          /\ handlerCalls' = handlerCalls
          /\ tick' = tick
          /\ tock' = tock
          /\ LoopCallbacks(rafQ') = 0
          /\ LoopCallbacks(running') = 0]_vars

\* C28 happens: a run whose handler was invoked has resolved from the
\* terminal branch.
C28_Witness ==
  /\ outcome = "terminal"
  /\ settled
  /\ response.last
  /\ handlerCalls > 0
  /\ response.tick = tick
  /\ LoopCallbacks(rafQ) = 0

\* C29: a loop invocation with a positive running index and a non-zero
\* interval that finds no more than the interval elapsed leaves tick, tock,
\* previousTimestamp, the threshold, the status, the rate, the interval, the
\* running index and the number of handler invocations as they were, and
\* leaves exactly one loop callback on the frame clock.
C29_SkipChangesNothing ==
  [][(LoopRuns /\ Positive(index) /\ fpsInterval # 0 /\ Elapsed <= fpsInterval)
       => /\ UNCHANGED <<tick, tock, previousTimestamp, treshold, status,
                         currentFPS, fpsInterval, index, handlerCalls>>
          /\ keyframe' # keyframe
          /\ LoopCallbacks(rafQ') = 1
          /\ LoopCallbacks(running') = 0]_vars

\* C29 happens: the loop skipped a frame between two firings.
C29_Witness ==
  /\ outcome = "skip"
  /\ handlerCalls > 0
  /\ fpsInterval # 0
  /\ currentSpeed # 0
  /\ clock - previousTimestamp <= fpsInterval + NowLag
  /\ LoopCallbacks(rafQ) = 1

\* C23 as stated: on a tick of a bounded run on which the handler is invoked
\* and returns, and no strict rescale is consumed, the running index is one
\* less after the tick than before it.
C23_DecrementByOne ==
  [][(/\ ~limit.inf
      /\ handlerCalls' > handlerCalls
      /\ outcome' = "fired"
      /\ Rescaled(index) = index)
       => index' = Minus1(index)]_vars

\* C23 amended: on a tick of a bounded run on which the handler is invoked,
\* the running index after the tick is 0 or the rescaled index when the
\* handler raised; when it returned, 1 if less than the tick's elapsed time
\* is left of the duration, and else the rescaled index less one, or 0 if
\* that index was below 1.
C23_DecrementOrLastFrame ==
  [][(~limit.inf /\ handlerCalls' > handlerCalls)
       => IF outcome' = "thrown"
          THEN index' \in {Zero, Rescaled(index)}
          ELSE IF duration.n - props'.delta * duration.d
                    < (clock' - start) * duration.d
          THEN index' = Num(1, 1)
          ELSE IF AtLeastOne(Rescaled(index))
          THEN index' = Minus1(Rescaled(index))
          ELSE index' = Zero]_vars

\* C23 happens: a fired tick near the end of the duration left the running
\* index at 1, and an earlier one counted it down.
C23_Witness ==
  /\ outcome = "fired"
  /\ ~limit.inf
  /\ handlerCalls > 1
  /\ index = Num(1, 1)
  /\ status = "dirty"
  /\ duration.n - props.delta * duration.d < (clock - start) * duration.d

\* C25: the rate converter returns 1000 / max(1, floor(r)) for every positive
\* rate r, and the interval of the default rate for every rate of 0 or less
\* and every value that is no number.
C25_ConverterTotal ==
  converted # NotCalled
    => converted =
         IF given.kind = "number" /\ given.n > 0
         THEN Finite(1000, IF given.n \div given.d >= 1
                           THEN given.n \div given.d ELSE 1)
         ELSE Finite(1000, defaults.fps)

\* The frame clock has stopped delivering: the time of the next frame has
\* passed (the fallback timer has fired in its place) and no frame came.
FrameClockStalled == \A d \in FrameSteps : frameTs + d < clock

Now == IF highResolution THEN frameTs + NowLag ELSE frameTs

\* The handler is invoked in this step.
HandlerRuns == handlerCalls' > handlerCalls

\* C31: a handler invocation that is not the first of the run comes more than
\* the interval in force after the handler invocation before it, and a step
\* invokes the handler at most once.
C31_InvocationsApart ==
  [][HandlerRuns
       => /\ handlerCalls' = handlerCalls + 1
          /\ handlerCalls > 0
               => props'.timestamp - props.timestamp > fpsInterval]_vars

C33_NoFallbackAfterTeardown ==
  [][(onFallback /\ teardowns > 0) => ~Fallback]_vars

\* C34 as stated: an interval with a finite limit L has invoked its handler
\* at most L times, has at most one timeout pending, and has none pending
\* once the handler has been invoked L times.
C34_LimitReleased ==
  ~intervalLimit.inf
    => /\ intervalCalls <= intervalLimit.n
       /\ Cardinality(timeouts) <= 1
       /\ (intervalLimit.n > 0 /\ intervalCalls = intervalLimit.n)
            => timeouts = {}

\* C34 amended: an interval with a finite limit L has invoked its handler at
\* most L times and has at most one timeout pending; when stop() was not
\* called and the handler did not raise, it has invoked the handler L times
\* once no timeout is pending; after the L-th invocation one more timeout is
\* pending unless stop() was called, and none is once that one has fired.
C34_LimitThenOneMore ==
  ~intervalLimit.inf
    => /\ intervalCalls <= intervalLimit.n
       /\ Cardinality(timeouts) <= 1
       /\ (timeouts = {} /\ ~stopped /\ raised = "no")
            => intervalCalls = intervalLimit.n
       /\ (intervalLimit.n > 0 /\ intervalCalls = intervalLimit.n
             /\ ~stopped /\ tLeft.n >= 0)
            => timeouts = {timer}
       /\ tLeft.n < 0 => timeouts = {}

\* C34 happens: an interval with a limit of 2 or more, never stopped and whose
\* handler never raised, has invoked the handler as often as the limit says
\* and its last timeout has fired.
C34_Witness ==
  /\ ~intervalLimit.inf
  /\ intervalLimit.n >= 2
  /\ intervalCalls = intervalLimit.n
  /\ ~stopped
  /\ raised = "no"
  /\ tLeft.n < 0
  /\ timeouts = {}

\* C35: once stop() of an interval was called or its handler has raised, the
\* handler is not invoked again and no timeout is pending.
C35_QuietAfterStopOrRaise ==
  [][(stopped \/ raised # "no")
       => /\ intervalCalls' = intervalCalls
          /\ timeouts = {}]_vars

====
